---- MODULE Spec2Model ----
(***************************************************************************)
(* Upload ingestion and progress tracking of Orbit File Transfer           *)
(* (src/main.py): get_device_folder, upload_file, get_status, get_progress *)
(* running as concurrent Flask request handlers (threaded=True) over the   *)
(* shared dictionary upload_progress and the file system.                  *)
(*                                                                         *)
(* Strings are sequences of lexemes: "photo.jpg" is <<"photo",".","jpg">>, *)
(* "uploaded/iPhone" is <<"uploaded","/","iPhone">>.  The lexemes "/",     *)
(* ".", "_" and " " are the characters the path and file name functions    *)
(* look at; every other lexeme stands for a run of letters and digits.     *)
(***************************************************************************)
EXTENDS Integers, Sequences, FiniteSets, TLC

\* ------------------------------------------------------------------ bounds
NumReq == 2      \* upload requests in one run
MaxFiles == 2    \* file parts in one request

MaxWords == 2    \* words in a client identifier of the classifier runs
MaxCounter == 4  \* largest suffix the duplicate-name loop is followed to

\* ------------------------------------------------------- program constants
UPLOAD_FOLDER == <<"uploaded">>

\* Python's None, as a value no file name, path or message is equal to.
None == <<"<None>">>

\* ------------------------------------------------------------ string tools
Digit == <<"0", "1", "2", "3", "4", "5", "6", "7", "8", "9">>

RECURSIVE Str(_)
\* str(n) of a non-negative integer, as used by the f-strings.
Str(n) == IF n < 10 THEN <<Digit[n + 1]>> ELSE Str(n \div 10) \o <<Digit[(n % 10) + 1]>>

\* Index of the last occurrence of lexeme t in s, 0 when there is none (str.rfind + 1).
LastIdx(s, t) == IF \E i \in DOMAIN s : s[i] = t
                 THEN CHOOSE i \in DOMAIN s : s[i] = t /\ \A j \in DOMAIN s : s[j] = t => j <= i
                 ELSE 0

\* t in s (Python's substring test): t occurs in s as a contiguous run.
Contains(s, t) == \E i \in 0..(Len(s) - Len(t)) : SubSeq(s, i + 1, i + Len(t)) = t

\* os.path.join(a, b) on POSIX.
Join(a, b) == IF b # <<>> /\ b[1] = "/" THEN b
              ELSE IF a = <<>> \/ a[Len(a)] = "/" THEN a \o b
              ELSE a \o <<"/">> \o b

\* os.path.basename(p).
Basename(p) == SubSeq(p, LastIdx(p, "/") + 1, Len(p))

\* os.path.dirname(p); <<>> is the current directory.
Dirname(p) == LET i == LastIdx(p, "/")
              IN  IF i = 0 THEN <<>> ELSE IF i = 1 THEN <<"/">> ELSE SubSeq(p, 1, i - 1)

\* os.path.splitext(p): the extension starts at the last "." of the last
\* component, unless only dots precede it there.
Splitext(p) == LET sep == LastIdx(p, "/")
                   dot == LastIdx(p, ".")
               IN  IF dot > sep /\ \E i \in (sep + 1)..(dot - 1) : p[i] # "."
                   THEN <<SubSeq(p, 1, dot - 1), SubSeq(p, dot, Len(p))>>
                   ELSE <<p, <<>>>>

RECURSIVE StripLeft(_, _)
StripLeft(s, chars) == IF s # <<>> /\ s[1] \in chars THEN StripLeft(Tail(s), chars) ELSE s

RECURSIVE StripRight(_, _)
StripRight(s, chars) == IF s # <<>> /\ s[Len(s)] \in chars
                        THEN StripRight(SubSeq(s, 1, Len(s) - 1), chars) ELSE s

\* str.strip(chars).
Strip(s, chars) == StripRight(StripLeft(s, chars), chars)

RECURSIVE JoinWords(_)
\* "_".join(s.split()) for s already stripped of outer blanks: every inner
\* run of blanks becomes one "_".
JoinWords(s) == IF s = <<>> THEN <<>>
                ELSE IF s[1] = " " THEN <<"_">> \o JoinWords(StripLeft(s, {" "}))
                ELSE <<s[1]>> \o JoinWords(Tail(s))

\* werkzeug.utils.secure_filename: path separators become blanks, blank
\* runs become "_", leading and trailing "." and "_" are stripped.
secure_filename(s) ==
    LET noSep == [i \in DOMAIN s |-> IF s[i] = "/" THEN " " ELSE s[i]]
    IN  Strip(JoinWords(Strip(noSep, {" "})), {".", "_"})

\* ------------------------------------------------------------- file system
\* fsDirs is the set of existing directories, fsFiles maps the path of
\* every existing plain file to its size in bytes.
\* os.path.exists(p): a path with a trailing "/" names a directory only.
Exists(dirs, files, p) ==
    \/ p \in DOMAIN files
    \/ p \in dirs
    \/ p # <<>> /\ p[Len(p)] = "/" /\ SubSeq(p, 1, Len(p) - 1) \in dirs

\* os.path.isdir(d), the current directory <<>> included.
IsDir(dirs, d) == d = <<>> \/ d \in dirs

\* The error open(p, "wb") raises, None when it succeeds.
OpenError(dirs, p) ==
    IF p = <<>> \/ p[Len(p)] = "/" \/ p \in dirs THEN <<"EISDIR">>
    ELSE IF ~IsDir(dirs, Dirname(p)) THEN <<"ENOENT">>
    ELSE None

\* The file system after n bytes were written to p by open(p, "wb").
WriteFile(files, p, n) == [q \in DOMAIN files \cup {p} |-> IF q = p THEN n ELSE files[q]]

\* ------------------------------------------------------- device classifier
\* The tests of lines 101-110 with Android tried before iPhone and iPad.
DeviceName_AndroidFirst(user_agent) ==
    IF Contains(user_agent, <<"Android">>) THEN <<"Android">>
    ELSE IF Contains(user_agent, <<"iPhone">>) \/ Contains(user_agent, <<"iPad">>) THEN <<"iPhone">>
    ELSE IF Contains(user_agent, <<"Windows">>) THEN <<"Windows", "_", "PC">>
    ELSE IF Contains(user_agent, <<"Macintosh">>)
            \/ Contains(user_agent, <<"Mac", " ", "OS", " ", "X">>) THEN <<"Mac">>
    ELSE <<"Unknown", "_", "Device">>

\* Lines 101-110 of get_device_folder: the ordered substring tests.
DeviceName(user_agent) ==
    IF Contains(user_agent, <<"iPhone">>) \/ Contains(user_agent, <<"iPad">>) THEN <<"iPhone">>
    ELSE IF Contains(user_agent, <<"Android">>) THEN <<"Android">>
    ELSE IF Contains(user_agent, <<"Windows">>) THEN <<"Windows", "_", "PC">>
    ELSE IF Contains(user_agent, <<"Macintosh">>)
            \/ Contains(user_agent, <<"Mac", " ", "OS", " ", "X">>) THEN <<"Mac">>
    ELSE <<"Unknown", "_", "Device">>

\* re.sub(r'[^\w\-_.]', '_', name): blanks and separators become "_".
Sanitize(name) == [i \in DOMAIN name |-> IF name[i] \in {" ", "/"} THEN "_" ELSE name[i]]

\* The value get_device_folder returns: a bare relative name for an empty
\* identifier (line 98), a directory under the upload folder otherwise.
get_device_folder(user_agent) ==
    IF user_agent = <<>> THEN <<"unknown", "_", "device">>
    ELSE Join(UPLOAD_FOLDER, Sanitize(DeviceName(user_agent)))

\* Whether get_device_folder reaches os.makedirs (line 117).
MakesDir(user_agent) == user_agent # <<>>

\* ------------------------------------------------------------ the tracker
\* Line 138: the record a new session starts with.
NewSession(n) ==
    [progress |-> 0, status |-> <<"starting">>, total_files |-> n,
     uploaded_files |-> <<>>, current_file |-> None]

\* The share of the files still to come instead of the share done.
ProgressAt_Remaining(idx, n) == ((n - idx) * 100) \div n

\* Line 146: int((idx / len(files)) * 100).
ProgressAt(idx, n) == (idx * 100) \div n

\* Line 147: the status text while file idx (0-based) is transferred.
UploadingStatus(idx, n, name) ==
    <<"Uploading file ">> \o Str(idx + 1) \o <<" of ">> \o Str(n) \o <<": ">> \o name

\* A failure status that drops the message of the exception.
ErrorStatus_NoMessage(e) == <<"error: ">>

\* Line 179: the status text of a failed session.
ErrorStatus(e) == <<"error: ">> \o e

COMPLETED == <<"completed">>

\* Line 245: what get_progress answers for an id the tracker does not hold.
NotStarted == [progress |-> 0, status |-> <<"not started">>]

\* ------------------------------------------------------------------ state
VARIABLES fsDirs, fsFiles, upload_progress, pc, req, loc, resp, written, poll

vars == <<fsDirs, fsFiles, upload_progress, pc, req, loc, resp, written, poll>>

Reqs == 1..NumReq

\* The client identifiers and file parts requests are built from.
UserAgents == { <<>>, <<"Mozilla", " ", "iPhone">> }

\* photo.jpg of 1 byte, ../photo.jpg of 2 bytes (the same name once it is
\* sanitised), and a part without a file name.
FileParts == { [filename |-> <<"photo", ".", "jpg">>, size |-> 1],
               [filename |-> <<".", ".", "/", "photo", ".", "jpg">>, size |-> 2],
               [filename |-> <<>>, size |-> 1] }

\* secure_filename of the file names the requests carry.
SecureNames == [n \in { p.filename : p \in FileParts } |-> secure_filename(n)]

PartLists == UNION { [1..n -> FileParts] : n \in 0..MaxFiles }

NoReq == [user_agent |-> <<>>, parts |-> <<>>]

NoLoc == [device_folder |-> None, session_id |-> 0, idx |-> 0, filename |-> None,
          filepath |-> None, original_filepath |-> None, counter |-> 0,
          uploaded_files |-> <<>>, e |-> None]

NoResp == [code |-> 0, json |-> FALSE, success |-> "absent", error |-> None,
           session_id |-> 0, device_folder |-> None, message |-> None, files |-> <<>>]

NoPoll == [kind |-> "none", sid |-> 0, body |-> <<>>]

\* main(), lines 947-949: the upload folder exists before the server runs.
Init ==
    /\ fsDirs = {UPLOAD_FOLDER}
    /\ fsFiles = <<>>
    /\ upload_progress = <<>>
    /\ pc = [r \in Reqs |-> "idle"]
    /\ req = [r \in Reqs |-> NoReq]
    /\ loc = [r \in Reqs |-> NoLoc]
    /\ resp = [r \in Reqs |-> NoResp]
    /\ written = [r \in Reqs |-> <<>>]
    /\ poll = NoPoll

Files(r) == req[r].parts

Sid(r) == loc[r].session_id

\* A step of an upload handler: it moves request r to label l and is not
\* a poll.
Goto(r, l) == /\ pc' = [pc EXCEPT ![r] = l]
              /\ poll' = NoPoll

\* ------------------------------------------------------- POST /upload
\* A request arrives with a client identifier of uas and the file parts of
\* one of lists; requests are numbered in the order of arrival.
ArriveWith(r, uas, lists) ==
    /\ pc[r] = "idle"
    /\ IF r = 1 THEN TRUE ELSE pc[r - 1] # "idle"
    /\ \E ua \in uas, ps \in lists :
          req' = [req EXCEPT ![r] = [user_agent |-> ua, parts |-> ps]]
    /\ Goto(r, "L125")
    /\ UNCHANGED <<fsDirs, fsFiles, upload_progress, loc, resp, written>>

Arrive(r) == ArriveWith(r, UserAgents, PartLists)

\* A test of line 125 that lets every request through.
NoFilesKey_Never(parts) == FALSE

\* Line 125: 'files' not in request.files, i.e. no part named files.
NoFilesKey(parts) == Len(parts) = 0

\* Lines 125-130.  getlist returns the parts counted by the test of line
\* 125, so the test of line 129 is false whenever it is reached.
L125(r) ==
    /\ pc[r] = "L125"
    /\ IF NoFilesKey(Files(r))
       THEN /\ resp' = [resp EXCEPT ![r] = [NoResp EXCEPT !.code = 400, !.json = TRUE,
                                               !.error = <<"No files provided">>]]
            /\ Goto(r, "done")
       ELSE IF Len(Files(r)) = 0
       THEN /\ resp' = [resp EXCEPT ![r] = [NoResp EXCEPT !.code = 400, !.json = TRUE,
                                               !.error = <<"No files selected">>]]
            /\ Goto(r, "done")
       ELSE /\ resp' = resp
            /\ Goto(r, "L134")
    /\ UNCHANGED <<fsDirs, fsFiles, upload_progress, req, loc, written>>

\* Lines 133-134: get_device_folder.  os.makedirs either creates the
\* directory or raises; nothing in upload_file catches that exception, so
\* Flask answers with its own 500 page and the handler is over.
L134(r) ==
    /\ pc[r] = "L134"
    /\ LET folder == get_device_folder(req[r].user_agent)
       IN  \/ /\ loc' = [loc EXCEPT ![r].device_folder = folder]
              /\ fsDirs' = IF MakesDir(req[r].user_agent)
                           THEN fsDirs \cup {UPLOAD_FOLDER, folder} ELSE fsDirs
              /\ resp' = resp
              /\ Goto(r, "L138")
           \/ /\ MakesDir(req[r].user_agent)
              /\ loc' = [loc EXCEPT ![r].e = <<"EACCES">>]
              /\ fsDirs' = fsDirs
              /\ resp' = [resp EXCEPT ![r] = [NoResp EXCEPT !.code = 500]]
              /\ Goto(r, "done")
    /\ UNCHANGED <<fsFiles, upload_progress, req, written>>

\* Lines 137-140: uuid4 gives an id no other request has; the request
\* number stands for it.
\* A generator that hands every request the same id.
uuid4_Constant(r) == 1

\* Line 137: str(uuid.uuid4()) is a fresh id; the number of the request
\* stands for it.
uuid4(r) == r

L138(r) ==
    /\ pc[r] = "L138"
    /\ loc' = [loc EXCEPT ![r].session_id = uuid4(r), ![r].uploaded_files = <<>>, ![r].idx = 0]
    /\ upload_progress' = [s \in DOMAIN upload_progress \cup {uuid4(r)} |->
                              IF s = uuid4(r) THEN NewSession(Len(Files(r))) ELSE upload_progress[s]]
    /\ Goto(r, "L143")
    /\ UNCHANGED <<fsDirs, fsFiles, req, resp, written>>

\* Line 144: bool(file) is bool(file.filename); allowed_file is True.
Truthy(part) == part.filename # <<>>

\* Lines 143-144: the loop head and the test that skips a part.
L143(r) ==
    /\ pc[r] = "L143"
    /\ IF loc[r].idx = Len(Files(r))
       THEN loc' = loc /\ Goto(r, "L173")
       ELSE IF Truthy(Files(r)[loc[r].idx + 1])
       THEN loc' = loc /\ Goto(r, "L146")
       ELSE loc' = [loc EXCEPT ![r].idx = @ + 1] /\ Goto(r, "L143")
    /\ UNCHANGED <<fsDirs, fsFiles, upload_progress, req, resp, written>>

\* A loop that takes the parts from the last to the first.
Cur_Reverse(r) == Files(r)[Len(Files(r)) - loc[r].idx]

\* The file part the loop body is working on.
Cur(r) == Files(r)[loc[r].idx + 1]

\* An assignment to one field of the session record of request r.
SetField(r, f, v) == upload_progress' = [upload_progress EXCEPT ![Sid(r)][f] = v]

L146(r) ==
    /\ pc[r] = "L146"
    /\ SetField(r, "progress", ProgressAt(loc[r].idx, Len(Files(r))))
    /\ Goto(r, "L147")
    /\ UNCHANGED <<fsDirs, fsFiles, req, loc, resp, written>>

L147(r) ==
    /\ pc[r] = "L147"
    /\ SetField(r, "status", UploadingStatus(loc[r].idx, Len(Files(r)),
                                              SecureNames[Cur(r).filename]))
    /\ Goto(r, "L148")
    /\ UNCHANGED <<fsDirs, fsFiles, req, loc, resp, written>>

\* Lines 148-155: current_file, then the locals of the path resolution.
L148(r) ==
    /\ pc[r] = "L148"
    /\ SetField(r, "current_file", SecureNames[Cur(r).filename])
    /\ LET filename == SecureNames[Cur(r).filename]
           filepath == Join(loc[r].device_folder, filename)
       IN  loc' = [loc EXCEPT ![r].filename = filename, ![r].filepath = filepath,
                              ![r].counter = 1, ![r].original_filepath = filepath]
    /\ Goto(r, "L156")
    /\ UNCHANGED <<fsDirs, fsFiles, req, resp, written>>

\* A loop body that forgets the counter and tries the same name again.
NextCandidate_SameName(device_folder, original_filepath, counter) ==
    LET name == Splitext(original_filepath)[1]
        ext  == Splitext(original_filepath)[2]
    IN  Join(device_folder, name \o <<"_">> \o Str(1) \o ext)

\* Lines 157-158: the next candidate path of the duplicate-name loop.
NextCandidate(device_folder, original_filepath, counter) ==
    LET name == Splitext(original_filepath)[1]
        ext  == Splitext(original_filepath)[2]
    IN  Join(device_folder, name \o <<"_">> \o Str(counter) \o ext)

\* Lines 156-159: one test of the while loop, and one pass of its body
\* when the path exists.
L156(r) ==
    /\ pc[r] = "L156"
    /\ IF Exists(fsDirs, fsFiles, loc[r].filepath)
       THEN /\ loc[r].counter <= MaxCounter
            /\ loc' = [loc EXCEPT
                         ![r].filepath = NextCandidate(loc[r].device_folder,
                                                       loc[r].original_filepath, loc[r].counter),
                         ![r].counter = @ + 1]
            /\ Goto(r, "L156")
       ELSE /\ loc' = loc
            /\ Goto(r, "L162")
    /\ UNCHANGED <<fsDirs, fsFiles, upload_progress, req, resp, written>>

\* A handler that swallows the exception and goes on with the next part.
Raise_SkipFile(r, err) ==
    /\ loc' = [loc EXCEPT ![r].e = err, ![r].idx = @ + 1]
    /\ Goto(r, "L143")

\* Lines 142 and 177: an exception raised inside the try block is bound to
\* e and control continues in the except clause.
Raise(r, err) ==
    /\ loc' = [loc EXCEPT ![r].e = err]
    /\ Goto(r, "L178")

\* Line 162: file.save(filepath) opens the path for writing, which creates
\* or truncates it, and copies the bytes.  open fails on a missing parent
\* directory; the copy fails when the disk is full and leaves a short file.
L162(r) ==
    /\ pc[r] = "L162"
    /\ LET p == loc[r].filepath
           err == OpenError(fsDirs, p)
       IN  IF err # None
           THEN /\ UNCHANGED <<fsFiles, written>>
                /\ Raise(r, err)
           ELSE \/ /\ fsFiles' = WriteFile(fsFiles, p, Cur(r).size)
                   /\ written' = [written EXCEPT ![r] = Append(@, p)]
                   /\ loc' = loc
                   /\ Goto(r, "L163")
                \/ /\ fsFiles' = WriteFile(fsFiles, p, 0)
                   /\ written' = written
                   /\ Raise(r, <<"ENOSPC">>)
    /\ UNCHANGED <<fsDirs, upload_progress, req, resp>>

\* Lines 163-168: the descriptor of a stored file (the timestamp is not
\* modelled).
FileInfo(files, device_folder, filepath) ==
    [filename |-> Basename(filepath), size |-> files[filepath],
     device_folder |-> Basename(device_folder)]

\* Lines 163-170: the descriptor is appended to the local list and to the
\* session record; the loop goes on with the next part.
L163(r) ==
    /\ pc[r] = "L163"
    /\ LET file_info == FileInfo(fsFiles, loc[r].device_folder, loc[r].filepath)
       IN  /\ loc' = [loc EXCEPT ![r].uploaded_files = Append(@, file_info),
                                 ![r].idx = @ + 1]
           /\ SetField(r, "uploaded_files",
                       Append(upload_progress[Sid(r)].uploaded_files, file_info))
    /\ Goto(r, "L143")
    /\ UNCHANGED <<fsDirs, fsFiles, req, resp, written>>

L173(r) ==
    /\ pc[r] = "L173"
    /\ SetField(r, "progress", 100)
    /\ Goto(r, "L174")
    /\ UNCHANGED <<fsDirs, fsFiles, req, loc, resp, written>>

L174(r) ==
    /\ pc[r] = "L174"
    /\ SetField(r, "status", COMPLETED)
    /\ Goto(r, "L175")
    /\ UNCHANGED <<fsDirs, fsFiles, req, loc, resp, written>>

L175(r) ==
    /\ pc[r] = "L175"
    /\ SetField(r, "current_file", None)
    /\ Goto(r, "L182")
    /\ UNCHANGED <<fsDirs, fsFiles, req, loc, resp, written>>

\* An except clause that also forgets the files already recorded.
FailureReset_Rollback(rec) == [rec EXCEPT !.progress = 0, !.uploaded_files = <<>>]

\* Line 178: what the except clause does to the session record first.
FailureReset(rec) == [rec EXCEPT !.progress = 0]

L178(r) ==
    /\ pc[r] = "L178"
    /\ upload_progress' = [upload_progress EXCEPT ![Sid(r)] = FailureReset(@)]
    /\ Goto(r, "L179")
    /\ UNCHANGED <<fsDirs, fsFiles, req, loc, resp, written>>

L179(r) ==
    /\ pc[r] = "L179"
    /\ SetField(r, "status", ErrorStatus(loc[r].e))
    /\ Goto(r, "L180")
    /\ UNCHANGED <<fsDirs, fsFiles, req, loc, resp, written>>

\* Line 180: the 500 answer of a failed request.
L180(r) ==
    /\ pc[r] = "L180"
    /\ resp' = [resp EXCEPT ![r] = [NoResp EXCEPT !.code = 500, !.json = TRUE,
                                       !.success = "false", !.error = loc[r].e]]
    /\ Goto(r, "done")
    /\ UNCHANGED <<fsDirs, fsFiles, upload_progress, req, loc, written>>

\* Lines 182-188: the 200 answer.
L182(r) ==
    /\ pc[r] = "L182"
    /\ resp' = [resp EXCEPT ![r] =
                  [code |-> 200, json |-> TRUE, success |-> "true", error |-> None,
                   session_id |-> Sid(r),
                   device_folder |-> Basename(loc[r].device_folder),
                   message |-> Str(Len(loc[r].uploaded_files))
                               \o <<" file(s) uploaded successfully to ">>
                               \o Basename(loc[r].device_folder),
                   files |-> loc[r].uploaded_files]]
    /\ Goto(r, "done")
    /\ UNCHANGED <<fsDirs, fsFiles, upload_progress, req, loc, written>>

\* ------------------------------------------------------- GET /progress
\* A lookup that answers an unknown id with a fresh session record, as a
\* dictionary with a default factory would.
get_progress_Default(tracker, session_id) ==
    IF session_id \in DOMAIN tracker THEN tracker[session_id] ELSE NewSession(0)

\* Line 245: upload_progress.get(session_id, sentinel).
get_progress(tracker, session_id) ==
    IF session_id \in DOMAIN tracker THEN tracker[session_id] ELSE NotStarted

\* Ids a poller may ask for: those of the requests and one never issued.
PollIds == 0..NumReq

GetProgress(sid) ==
    /\ poll' = [kind |-> "progress", sid |-> sid, body |-> get_progress(upload_progress, sid)]
    /\ UNCHANGED <<fsDirs, fsFiles, upload_progress, pc, req, loc, resp, written>>

\* ------------------------------------------------------- GET /status
\* os.listdir(d): the names directly inside directory d.
ListDir(dirs, files, d) ==
    { Basename(p) : p \in { q \in dirs \cup DOMAIN files : q # d /\ Dirname(q) = d } }

RECURSIVE SumFiles(_)
\* sum(len(folder['files']) for folder in device_folders).
SumFiles(S) == IF S = {} THEN 0
               ELSE LET x == CHOOSE y \in S : TRUE IN Cardinality(x.files) + SumFiles(S \ {x})

\* A total that forgets the files lying directly in the upload folder.
TotalFiles_FoldersOnly(device_folders, loose) == SumFiles(device_folders)

\* Line 237: total_files.
TotalFiles(device_folders, loose) == SumFiles(device_folders) + Cardinality(loose)

\* Lines 200-239.  os.listdir gives the names in no particular order, so
\* the two lists are sets here; timestamps are not modelled.
get_status(dirs, files, tracker) ==
    LET top == IF Exists(dirs, files, UPLOAD_FOLDER) THEN ListDir(dirs, files, UPLOAD_FOLDER) ELSE {}
        entry(path, folder) == [name |-> Basename(path), size |-> files[path],
                                device_folder |-> folder]
        device_folders ==
            { [name |-> item,
               files |-> { entry(Join(Join(UPLOAD_FOLDER, item), f), item) :
                           f \in { g \in ListDir(dirs, files, Join(UPLOAD_FOLDER, item)) :
                                   Join(Join(UPLOAD_FOLDER, item), g) \in DOMAIN files } }] :
              item \in { i \in top : Join(UPLOAD_FOLDER, i) \in dirs } }
        loose == { entry(Join(UPLOAD_FOLDER, item), <<"root">>) :
                   item \in { i \in top : Join(UPLOAD_FOLDER, i) \in DOMAIN files } }
    IN  [connected |-> TRUE, files |-> loose, device_folders |-> device_folders,
         total_files |-> TotalFiles(device_folders, loose),
         upload_progress |-> tracker]

GetStatus ==
    /\ poll' = [kind |-> "status", sid |-> 0, body |-> get_status(fsDirs, fsFiles, upload_progress)]
    /\ UNCHANGED <<fsDirs, fsFiles, upload_progress, pc, req, loc, resp, written>>

\* -------------------------------------------------------------- behaviour
\* The steps of the handlers once a request has arrived, and the polls.
Steps ==
    \/ \E r \in Reqs : L125(r)
    \/ \E r \in Reqs : L134(r)
    \/ \E r \in Reqs : L138(r)
    \/ \E r \in Reqs : L143(r)
    \/ \E r \in Reqs : L146(r)
    \/ \E r \in Reqs : L147(r)
    \/ \E r \in Reqs : L148(r)
    \/ \E r \in Reqs : L156(r)
    \/ \E r \in Reqs : L162(r)
    \/ \E r \in Reqs : L163(r)
    \/ \E r \in Reqs : L173(r)
    \/ \E r \in Reqs : L174(r)
    \/ \E r \in Reqs : L175(r)
    \/ \E r \in Reqs : L178(r)
    \/ \E r \in Reqs : L179(r)
    \/ \E r \in Reqs : L180(r)
    \/ \E r \in Reqs : L182(r)
    \/ \E sid \in PollIds : GetProgress(sid)
    \/ GetStatus

\* Requests handled by concurrent threads (app.run(threaded=True), line 953).
Next ==
    \/ \E r \in Reqs : Arrive(r)
    \/ Steps

Spec == Init /\ [][Next]_vars

\* A client that sends its requests in sequence: the next one arrives
\* when the one before has been answered.
ArriveInSequence(r) ==
    /\ \A q \in Reqs : pc[q] \in {"idle", "done"}
    /\ Arrive(r)

NextSeq ==
    \/ \E r \in Reqs : ArriveInSequence(r)
    \/ Steps

SpecSeq == Init /\ [][NextSeq]_vars

\* Runs of one request whose client identifier is made of up to MaxWords
\* of the words below, separated by blanks.
UaWords == { <<"iPhone">>, <<"iPad">>, <<"Android">>, <<"Windows">>, <<"Macintosh">>,
             <<"Mac">>, <<"OS", " ", "X">>, <<"Mozilla">> }

RECURSIVE JoinBlank(_)
JoinBlank(ws) == IF ws = <<>> THEN <<>>
                 ELSE IF Len(ws) = 1 THEN ws[1]
                 ELSE ws[1] \o <<" ">> \o JoinBlank(Tail(ws))

ClassifierInputs == { JoinBlank(ws) : ws \in UNION { [1..n -> UaWords] : n \in 0..MaxWords } }

ArriveUA(r) ==
    /\ r = 1
    /\ ArriveWith(r, ClassifierInputs, { <<[filename |-> <<"photo", ".", "jpg">>, size |-> 1]>> })

NextUA ==
    \/ \E r \in Reqs : ArriveUA(r)
    \/ Steps

SpecUA == Init /\ [][NextUA]_vars

\* name_k.ext for a file name name.ext.
Suffixed(filename, k) ==
    Splitext(filename)[1] \o <<"_">> \o Str(k) \o Splitext(filename)[2]

\* Runs of one request on an upload folder that earlier runs, or the user,
\* have left in one of these states: absent, empty, with a file directly
\* in it, with a device folder holding photo.jpg, and with photo.jpg and
\* the nested folder in which the duplicate-name loop looks for photo_1.jpg
\* and photo_2.jpg.
IPhoneDir == Join(UPLOAD_FOLDER, <<"iPhone">>)

NestedDir == Join(IPhoneDir, IPhoneDir)

Photo == <<"photo", ".", "jpg">>

LooseFile == Join(UPLOAD_FOLDER, <<"notes", ".", "txt">>)

DiskStates ==
    { [dirs |-> {}, files |-> <<>>],
      [dirs |-> {UPLOAD_FOLDER}, files |-> <<>>],
      [dirs |-> {UPLOAD_FOLDER}, files |-> (LooseFile :> 3)],
      [dirs |-> {UPLOAD_FOLDER, IPhoneDir},
       files |-> (LooseFile :> 3) @@ (Join(IPhoneDir, Photo) :> 1)],
      [dirs |-> {UPLOAD_FOLDER, IPhoneDir, Join(IPhoneDir, UPLOAD_FOLDER), NestedDir},
       files |-> (Join(IPhoneDir, Photo) :> 1)
                 @@ (Join(NestedDir, Suffixed(Photo, 1)) :> 1)],
      [dirs |-> {UPLOAD_FOLDER, IPhoneDir, Join(IPhoneDir, UPLOAD_FOLDER), NestedDir},
       files |-> (Join(IPhoneDir, Photo) :> 1)
                 @@ (Join(NestedDir, Suffixed(Photo, 1)) :> 1)
                 @@ (Join(NestedDir, Suffixed(Photo, 2)) :> 2)] }

InitDisk ==
    /\ \E d \in DiskStates : fsDirs = d.dirs /\ fsFiles = d.files
    /\ upload_progress = <<>>
    /\ pc = [r \in Reqs |-> "idle"]
    /\ req = [r \in Reqs |-> NoReq]
    /\ loc = [r \in Reqs |-> NoLoc]
    /\ resp = [r \in Reqs |-> NoResp]
    /\ written = [r \in Reqs |-> <<>>]
    /\ poll = NoPoll

ArriveOne(r) ==
    /\ r = 1
    /\ Arrive(r)

NextDisk ==
    \/ \E r \in Reqs : ArriveOne(r)
    \/ Steps

SpecDisk == InitDisk /\ [][NextDisk]_vars

\* The statements of the handler of request r.
Handler(r) ==
    \/ L125(r) \/ L134(r) \/ L138(r) \/ L143(r) \/ L146(r) \/ L147(r)
    \/ L148(r) \/ L156(r) \/ L162(r) \/ L163(r) \/ L173(r) \/ L174(r)
    \/ L175(r) \/ L178(r) \/ L179(r) \/ L180(r) \/ L182(r)

\* The thread of a request is scheduled again and again until it returns,
\* and file.save returns or raises.
SpecDiskFair == SpecDisk /\ \A r \in Reqs : WF_vars(Handler(r))

\* ================================================================= claims
HasSession(r) == Sid(r) \in DOMAIN upload_progress

Session(r) == upload_progress[Sid(r)]

\* The category directory the documented layout uploadRoot/<deviceCategory>
\* gives a client identifier.
CategoryDir(user_agent) ==
    Join(UPLOAD_FOLDER, IF user_agent = <<>> THEN <<"unknown", "_", "device">>
                        ELSE Sanitize(DeviceName(user_agent)))

\* C1: in a sequence of uploads, a one-file request that finds its name
\* taken in the category directory by an earlier successful upload (and
\* does not run out of disk space itself) is answered 200, its file entry
\* carries the name with the suffix _k, and the suffixed file and the
\* original are both in the category directory.
C1_SuffixedUploadStored ==
    \A r \in Reqs :
        (/\ pc[r] = "done"
         /\ Len(Files(r)) = 1
         /\ loc[r].counter >= 2
         /\ loc[r].e # <<"ENOSPC">>
         /\ \A q \in Reqs \ {r} : pc[q] = "done" => resp[q].code = 200)
        => /\ resp[r].code = 200
           /\ Len(resp[r].files) = 1
           /\ resp[r].files[1].filename = Suffixed(loc[r].filename, loc[r].counter - 1)
           /\ Join(CategoryDir(req[r].user_agent), loc[r].filename) \in DOMAIN fsFiles
           /\ Join(CategoryDir(req[r].user_agent), resp[r].files[1].filename) \in DOMAIN fsFiles

\* C2: a request that creates a file by file.save does so at a path where
\* no file exists at that instant, under every interleaving of requests.
C2_NoOverwrite ==
    [][\A r \in Reqs :
          (pc[r] = "L162" /\ pc'[r] # "L162" /\ loc[r].filepath \in DOMAIN fsFiles')
          => loc[r].filepath \notin DOMAIN fsFiles]_vars

\* C3: whenever a request is about to write a file, the parent of the
\* destination path is the category directory under the upload root, and
\* that directory exists.
C3_DestinationInCategoryDir ==
    \A r \in Reqs :
        pc[r] = "L162"
        => /\ Dirname(loc[r].filepath) = CategoryDir(req[r].user_agent)
           /\ CategoryDir(req[r].user_agent) \in fsDirs

\* C4 as stated: no step lowers the progress of a session record.
C4_ProgressNeverDecreases ==
    [][\A s \in DOMAIN upload_progress :
          upload_progress'[s].progress >= upload_progress[s].progress]_vars

\* C4 as amended: the only step that lowers the progress of a request's
\* session record is line 178 of the failure handler, which sets it to 0;
\* every other step leaves it equal or raises it.
C4_ProgressDecreasesOnlyOnFailure ==
    [][\A r \in Reqs :
          HasSession(r)
          => IF pc[r] = "L178" /\ pc'[r] = "L179"
             THEN upload_progress'[Sid(r)].progress = 0
             ELSE upload_progress'[Sid(r)].progress >= upload_progress[Sid(r)].progress]_vars

\* A request whose second file failed after progress had been raised above
\* 0 has had its progress reset.
C4_Witness ==
    \E r \in Reqs :
        /\ pc[r] = "L179"
        /\ loc[r].idx >= 1
        /\ Len(Session(r).uploaded_files) >= 1
        /\ Session(r).progress = 0

\* C5: in every state of every session record, progress is 100 exactly
\* when status is "completed".
C5_HundredIffCompleted ==
    \A s \in DOMAIN upload_progress :
        (upload_progress[s].progress = 100) <=> (upload_progress[s].status = COMPLETED)

\* An exception was raised while request r wrote one of its files.
WriteFailed(r) == loc[r].e # None /\ HasSession(r)

\* C6: once the write of a file of request r has failed at index idx, the
\* request never moves to another file: its index and path stay, it writes
\* nothing, and its session record keeps uploaded_files and current_file
\* (the failed file) and changes status only to the failure status; the
\* record holds at most the files before the failed one.
C6_AbortAfterFailure ==
    /\ [](\A r \in Reqs :
            WriteFailed(r)
            => /\ loc[r].idx < Len(Files(r))
               /\ Len(Session(r).uploaded_files) <= loc[r].idx
               /\ Len(written[r]) <= loc[r].idx
               /\ Session(r).current_file = secure_filename(Files(r)[loc[r].idx + 1].filename)
               /\ pc[r] \in {"L178", "L179", "L180", "done"})
    /\ [][\A r \in Reqs :
            WriteFailed(r)
            => /\ loc'[r].idx = loc[r].idx
               /\ loc'[r].filepath = loc[r].filepath
               /\ written'[r] = written[r]
               /\ upload_progress'[Sid(r)].uploaded_files = Session(r).uploaded_files
               /\ upload_progress'[Sid(r)].current_file = Session(r).current_file
               /\ upload_progress'[Sid(r)].status
                    \in {Session(r).status, <<"error: ">> \o loc[r].e}
               /\ (pc'[r] # pc[r] => fsFiles' = fsFiles /\ fsDirs' = fsDirs)]_vars

\* A two-file request answered 500 after its first file failed.
C6_Witness ==
    \E r \in Reqs :
        /\ pc[r] = "done"
        /\ WriteFailed(r)
        /\ Len(Files(r)) = 2
        /\ loc[r].idx = 0
        /\ Truthy(Files(r)[2])
        /\ resp[r].code = 500

\* The file names of a list of descriptors, and of a list of paths.
Filenames(descriptors) == [i \in DOMAIN descriptors |-> descriptors[i].filename]

Basenames(paths) == [i \in DOMAIN paths |-> Basename(paths[i])]

\* C7: when a request has failed, every file it wrote before is on disk and
\* its session record lists exactly those files, in the order written; a
\* GET /progress for the session and a GET /status show that list, and
\* GET /status shows the files in the inventory.
C7_NoRollback ==
    \A r \in Reqs :
        WriteFailed(r)
        => /\ \A i \in DOMAIN written[r] : written[r][i] \in DOMAIN fsFiles
           /\ Filenames(Session(r).uploaded_files) = Basenames(written[r])
           /\ (poll.kind = "progress" /\ poll.sid = Sid(r)
               => Filenames(poll.body.uploaded_files) = Basenames(written[r]))
           /\ (poll.kind = "status"
               => /\ Filenames(poll.body.upload_progress[Sid(r)].uploaded_files)
                       = Basenames(written[r])
                  /\ \A i \in DOMAIN written[r] :
                        \E d \in poll.body.device_folders :
                            /\ Join(UPLOAD_FOLDER, d.name) = loc[r].device_folder
                            /\ \E f \in d.files : f.name = Basename(written[r][i]))

\* A poll of a session that failed at its second file, after the 500.
C7_Witness ==
    \E r \in Reqs :
        /\ pc[r] = "done"
        /\ resp[r].code = 500
        /\ WriteFailed(r)
        /\ Len(written[r]) >= 1
        /\ poll.kind = "progress"
        /\ poll.sid = Sid(r)

\* A status that reports a failure.
IsFailureStatus(status) == status # <<>> /\ status[1] = "error: "

\* C8: when a request that created a session has been answered, the answer
\* is 200 success:true exactly when the session's status is "completed",
\* and 500 success:false with an error message exactly when the status is
\* the failure status carrying that message; one of the two is the case.
C8_ResponseAgreesWithSession ==
    \A r \in Reqs :
        (pc[r] = "done" /\ HasSession(r))
        => /\ (resp[r].code = 200 /\ resp[r].json /\ resp[r].success = "true")
                <=> (Session(r).status = COMPLETED)
           /\ (resp[r].code = 500 /\ resp[r].json /\ resp[r].success = "false"
                 /\ resp[r].error # None
                 /\ Session(r).status = <<"error: ">> \o resp[r].error)
                <=> IsFailureStatus(Session(r).status)
           /\ Session(r).status = COMPLETED \/ IsFailureStatus(Session(r).status)

\* One request answered 200 and another answered 500.
C8_Witness ==
    \E r, q \in Reqs :
        /\ pc[r] = "done" /\ HasSession(r) /\ resp[r].code = 200
        /\ pc[q] = "done" /\ HasSession(q) /\ resp[q].code = 500

\* C9: a request whose directory creation failed has a session record
\* marked failed with the error message, and is answered with the 500 JSON
\* body {success:false, error}.
C9_MkdirFailureIsIOFailure ==
    \A r \in Reqs :
        (pc[r] = "done" /\ loc[r].e # None /\ loc[r].device_folder = None)
        => /\ resp[r].code = 500
           /\ resp[r].json
           /\ resp[r].success = "false"
           /\ resp[r].error = loc[r].e
           /\ \E s \in DOMAIN upload_progress :
                 upload_progress[s].status = <<"error: ">> \o loc[r].e

\* C10: the first step of a request without file parts answers 400 with
\* {error: "No files provided"} and ends the request, leaving the tracker
\* and the file system as they were; such a request never has a session, a
\* device folder or a written file.
C10_NoFilesRejected ==
    /\ [](\A r \in Reqs :
            (pc[r] = "done" /\ Len(Files(r)) = 0)
            => /\ resp[r] = [NoResp EXCEPT !.code = 400, !.json = TRUE,
                                           !.error = <<"No files provided">>]
               /\ ~HasSession(r)
               /\ loc[r].device_folder = None
               /\ written[r] = <<>>)
    /\ [][\A r \in Reqs :
            (pc[r] = "L125" /\ pc'[r] # "L125" /\ Len(Files(r)) = 0)
            => /\ pc'[r] = "done"
               /\ resp'[r].code = 400
               /\ upload_progress' = upload_progress
               /\ fsDirs' = fsDirs
               /\ fsFiles' = fsFiles]_vars

\* A request without file parts was answered while another request had
\* created a session and a file.
C10_Witness ==
    \E r \in Reqs :
        /\ pc[r] = "done"
        /\ Len(Files(r)) = 0
        /\ resp[r].code = 400
        /\ DOMAIN upload_progress # {}
        /\ DOMAIN fsFiles # {}

\* C11: a GET /progress for an id the tracker holds no record for answers
\* exactly {progress: 0, status: "not started"}, and the poll leaves the
\* tracker as it was: no record is added for the id and none is changed.
C11_UnknownIdGetsSentinel ==
    /\ [](poll.kind = "progress" /\ poll.sid \notin DOMAIN upload_progress
          => poll.body = [progress |-> 0, status |-> <<"not started">>])
    /\ [][\A sid \in PollIds :
            (poll'.kind = "progress" /\ poll'.sid = sid /\ sid \notin DOMAIN upload_progress)
            => /\ poll'.body = [progress |-> 0, status |-> <<"not started">>]
               /\ upload_progress' = upload_progress]_vars

\* An unknown id was polled while the tracker held the record of another
\* session.
C11_Witness ==
    /\ poll.kind = "progress"
    /\ poll.sid \notin DOMAIN upload_progress
    /\ DOMAIN upload_progress # {}

\* The label the documented rules give an identifier: the first rule that
\* matches wins.
C12_Label(ua) ==
    IF ua = <<>> THEN <<"unknown", "_", "device">>
    ELSE IF Contains(ua, <<"iPhone">>) \/ Contains(ua, <<"iPad">>) THEN <<"iPhone">>
    ELSE IF Contains(ua, <<"Android">>) THEN <<"Android">>
    ELSE IF Contains(ua, <<"Windows">>) THEN <<"Windows", "_", "PC">>
    ELSE IF Contains(ua, <<"Macintosh">>) \/ Contains(ua, <<"Mac", " ", "OS", " ", "X">>)
    THEN <<"Mac">>
    ELSE <<"Unknown", "_", "Device">>

\* C12: for every identifier, the last component of the folder
\* get_device_folder returns is the label of the first matching rule, it is
\* one of the six labels, and a 200 response reports it as device_folder.
C12_FirstMatchWins ==
    \A r \in Reqs :
        loc[r].device_folder # None
        => /\ Basename(loc[r].device_folder) = C12_Label(req[r].user_agent)
           /\ Basename(loc[r].device_folder)
                \in { <<"iPhone">>, <<"Android">>, <<"Windows", "_", "PC">>, <<"Mac">>,
                      <<"Unknown", "_", "Device">>, <<"unknown", "_", "device">> }
           /\ (resp[r].code = 200 => resp[r].device_folder = C12_Label(req[r].user_agent))

\* An identifier naming both Android and iPhone was answered 200 as iPhone.
C12_Witness ==
    \E r \in Reqs :
        /\ Contains(req[r].user_agent, <<"Android">>)
        /\ Contains(req[r].user_agent, <<"iPhone">>)
        /\ resp[r].code = 200
        /\ resp[r].device_folder = <<"iPhone">>

\* C13: whenever GET /status answers, every file entry of every 200
\* response returned so far is listed, with its file name and size, in the
\* device folder named by that response.
C13_ReportedFilesAreListed ==
    poll.kind = "status"
    => \A r \in Reqs :
          (pc[r] = "done" /\ resp[r].code = 200)
          => \A i \in DOMAIN resp[r].files :
                \E d \in poll.body.device_folders :
                    /\ d.name = resp[r].device_folder
                    /\ \E f \in d.files : /\ f.name = resp[r].files[i].filename
                                          /\ f.size = resp[r].files[i].size

\* C14: the answer of GET /status is the projection of the top level of
\* the upload folder: one device_folders entry for each directory directly
\* in it, holding the plain files directly in that directory; one files
\* entry with device_folder "root" for each plain file directly in it;
\* total_files the number of all these files; all empty and 0 when the
\* upload folder is absent or empty.
C14_StatusIsProjection ==
    poll.kind = "status"
    => LET b == poll.body
           topDirs == { q \in fsDirs : Dirname(q) = UPLOAD_FOLDER }
           filesIn(d) == { q \in DOMAIN fsFiles : Dirname(q) = d }
           info(q, folder) == [name |-> Basename(q), size |-> fsFiles[q],
                               device_folder |-> folder]
       IN  /\ { d.name : d \in b.device_folders } = { Basename(q) : q \in topDirs }
           /\ Cardinality(b.device_folders) = Cardinality(topDirs)
           /\ \A d \in b.device_folders :
                 d.files = { info(q, d.name) : q \in filesIn(Join(UPLOAD_FOLDER, d.name)) }
           /\ b.files = { info(q, <<"root">>) : q \in filesIn(UPLOAD_FOLDER) }
           /\ b.total_files
                = Cardinality({ q \in DOMAIN fsFiles :
                                  \/ Dirname(q) = UPLOAD_FOLDER
                                  \/ Dirname(q) \in topDirs })
           /\ (UPLOAD_FOLDER \notin fsDirs \/ (topDirs = {} /\ filesIn(UPLOAD_FOLDER) = {})
               => b.files = {} /\ b.device_folders = {} /\ b.total_files = 0)

\* GET /status answered after an upload was stored next to a file lying
\* directly in the upload folder.
C14_Witness ==
    /\ poll.kind = "status"
    /\ poll.body.files # {}
    /\ \E d \in poll.body.device_folders : d.files # {}
    /\ \E r \in Reqs : pc[r] = "done" /\ resp[r].code = 200 /\ resp[r].files # <<>>

\* The parts of request r with a file name among those the loop has gone
\* past, in the order of arrival.
TruthyBefore(r) == SelectSeq(SubSeq(Files(r), 1, loc[r].idx), Truthy)

\* C15: within one request the files are written and recorded one after
\* the other in the order of arrival: while the loop works on a part, all
\* earlier parts with a file name, and no others, have been written and
\* recorded; the i-th descriptor of the session describes the i-th file
\* written, which holds the content of the i-th such part; and the
\* response lists the descriptors in that order.
C15_ArrivalOrder ==
    \A r \in Reqs :
        HasSession(r)
        => LET rec == upload_progress[Sid(r)].uploaded_files
               before == TruthyBefore(r)
           IN  /\ Len(rec) = Len(before)
               /\ Len(written[r]) = Len(before) + (IF pc[r] = "L163" THEN 1 ELSE 0)
               /\ \A i \in DOMAIN rec :
                     /\ rec[i].size = before[i].size
                     /\ rec[i].filename = Basename(written[r][i])
               /\ loc[r].uploaded_files = rec
               /\ (pc[r] = "done" /\ resp[r].code = 200 => resp[r].files = rec)

\* A request answered after storing two files of different sizes.
C15_Witness ==
    \E r \in Reqs : /\ pc[r] = "done" /\ resp[r].code = 200
                    /\ Len(resp[r].files) = 2
                    /\ resp[r].files[1].size # resp[r].files[2].size

\* A status after which the request makes no further progress report.
IsFinalStatus(status) == status = <<"completed">> \/ IsFailureStatus(status)

\* C16: while a session of more than one file is in flight, its progress
\* is floor(completed * 100 / total), where completed is the length of its
\* uploaded_files and total its total_files.
C16_ProgressIsFloor ==
    \A r \in Reqs :
        (/\ HasSession(r)
         /\ pc[r] # "done"
         /\ Session(r).total_files > 1
         /\ ~IsFinalStatus(Session(r).status))
        => Session(r).progress
             = (Len(Session(r).uploaded_files) * 100) \div Session(r).total_files

\* C17: session records are never removed, and a record whose status is
\* "completed" or a failure status is not changed by any later step.
C17_FrozenOnceFinal ==
    [][/\ DOMAIN upload_progress \subseteq DOMAIN upload_progress'
       /\ \A sid \in DOMAIN upload_progress :
             IsFinalStatus(upload_progress[sid].status)
             => upload_progress'[sid] = upload_progress[sid]]_vars

\* C20: a session whose status is "completed" or a failure status has no
\* current_file.
C20_NoCurrentFileWhenFinal ==
    \A sid \in DOMAIN upload_progress :
        IsFinalStatus(upload_progress[sid].status)
        => upload_progress[sid].current_file = None

\* C18: under any interleaving of upload requests, every request that has
\* passed line 138 has one session record of its own, under an id no other
\* request has; a record is created and changed only by steps of the
\* request that owns it; and every descriptor in a record describes a file
\* its owner wrote.
C18_OwnRecord ==
    /\ [](/\ \A r1, r2 \in Reqs :
                (r1 # r2 /\ HasSession(r1) /\ HasSession(r2)) => Sid(r1) # Sid(r2)
          /\ Cardinality(DOMAIN upload_progress)
               = Cardinality({ r \in Reqs : pc[r] \notin {"idle", "L125", "L134", "L138"}
                                             /\ HasSession(r) })
          /\ \A r \in Reqs :
                HasSession(r)
                => /\ Len(Session(r).uploaded_files) <= Len(written[r])
                   /\ \A i \in DOMAIN Session(r).uploaded_files :
                         Session(r).uploaded_files[i].filename = Basename(written[r][i]))
    /\ [][/\ \A sid \in DOMAIN upload_progress :
                upload_progress'[sid] # upload_progress[sid]
                => \E r \in Reqs : /\ loc[r].session_id = sid
                                   /\ pc'[r] # pc[r]
                                   /\ \A q \in Reqs \ {r} : pc'[q] = pc[q]
          /\ \A sid \in DOMAIN upload_progress' \ DOMAIN upload_progress :
                \E r \in Reqs : /\ pc[r] = "L138"
                                /\ pc'[r] # pc[r]
                                /\ loc'[r].session_id = sid
                                /\ \A q \in Reqs \ {r} : loc'[q].session_id # sid]_vars

\* Two requests in flight at once, each with a file recorded in its own
\* session.
C18_Witness ==
    /\ \A r \in Reqs : /\ HasSession(r)
                       /\ pc[r] # "done"
                       /\ Session(r).uploaded_files # <<>>
    /\ Cardinality({ Sid(r) : r \in Reqs }) = NumReq

\* C19: the duplicate-name loop ends for every file name and every set of
\* files found on disk, so every request that has arrived is eventually
\* answered, and its session, when it has one, is then in a final status.
C19_EveryRequestAnswered ==
    \A r \in Reqs :
        (pc[r] # "idle")
        ~> (/\ pc[r] = "done"
            /\ resp[r].code # 0
            /\ (HasSession(r) => IsFinalStatus(Session(r).status)))

\* A request answered after the duplicate-name loop has gone past two
\* existing candidates.
C19_Witness ==
    \E r \in Reqs : /\ pc[r] = "done"
                    /\ resp[r].code = 200
                    /\ loc[r].counter >= 3
                    /\ IsFinalStatus(Session(r).status)

\* C21: a session never lists more files than it was sized to, and one
\* that has ended with status "completed" lists exactly total_files files,
\* as does the files list of the 200 response of its request.
C21_CompletedAccountsForAll ==
    \A r \in Reqs :
        HasSession(r)
        => /\ Len(Session(r).uploaded_files) <= Session(r).total_files
           /\ (Session(r).status = <<"completed">>
               => Len(Session(r).uploaded_files) = Session(r).total_files)
           /\ (pc[r] = "done" /\ resp[r].code = 200
               => Len(resp[r].files) = Session(r).total_files)

====
